---- MODULE Spec2Model ----
(***************************************************************************)
(* Model of the Argo CD MCP server: the tool layer (Server, its            *)
(* constructor and addJsonOutputTool) and the domain client (ArgoCDClient).*)
(*                                                                         *)
(* Encoding of JavaScript values                                           *)
(*   - an optional value is a sequence of length 0 (undefined) or 1;       *)
(*   - an object used as an option bag is a record whose fields are        *)
(*     optional values: a key is present iff its field is defined;         *)
(*   - a string is a TLA+ string, except the MCP_READ_ONLY variable, which *)
(*     is a sequence of characters so that trim/toLowerCase are computed;  *)
(*   - a URL path is a tuple of its segments.                              *)
(***************************************************************************)
EXTENDS Integers, Sequences, FiniteSets, TLC

VARIABLES
  env,     \* process.env.MCP_READ_ONLY, read once by the constructor
  tools,   \* names of the tools registered by the constructor
  calls    \* per slot: the invocation in flight (or idle)

vars == <<env, tools, calls>>

----------------------------------------------------------------------------
(* Bounds *)

MaxCalls == 2      \* slots for concurrently running invocations
MaxApps == 3       \* applications in a remote list response
MaxLimit == 3      \* largest limit argument
MaxOffset == 4     \* largest offset argument
MaxLogs == 2       \* records delivered by one log stream
MaxPad == 1        \* white space on each side of MCP_READ_ONLY

----------------------------------------------------------------------------
(* JavaScript values *)

None == <<>>
Some(v) == <<v>>
Opt(S) == {None} \cup {Some(v) : v \in S}

IsDefined(o) == Len(o) > 0
TruthyStr(o) == Len(o) > 0 /\ o[1] # ""
TruthyNum(o) == Len(o) > 0 /\ o[1] # 0
Keys(obj) == {k \in DOMAIN obj : IsDefined(obj[k])}

Min(a, b) == IF a <= b THEN a ELSE b
Max(a, b) == IF a >= b THEN a ELSE b

\* Array.prototype.slice(start, end) for non-negative start and end
Slice(s, start, end) ==
  LET from == Min(start, Len(s))
      to == Min(end, Len(s))
  IN IF to <= from THEN <<>> ELSE SubSeq(s, from + 1, to)

----------------------------------------------------------------------------
(* Read-only flag *)

WhiteSpace == {" ", "\t"}

RECURSIVE trimStart(_)
trimStart(s) ==
  IF s # <<>> /\ Head(s) \in WhiteSpace THEN trimStart(Tail(s)) ELSE s

RECURSIVE trimEnd(_)
trimEnd(s) ==
  IF s # <<>> /\ s[Len(s)] \in WhiteSpace
  THEN trimEnd(SubSeq(s, 1, Len(s) - 1))
  ELSE s

trim(s) == trimEnd(trimStart(s))

lowerChar(ch) ==
  CASE ch = "T" -> "t"
    [] ch = "R" -> "r"
    [] ch = "U" -> "u"
    [] ch = "E" -> "e"
    [] ch = "F" -> "f"
    [] ch = "A" -> "a"
    [] ch = "L" -> "l"
    [] ch = "S" -> "s"
    [] OTHER -> ch

toLowerCase(s) == [i \in 1..Len(s) |-> lowerChar(s[i])]

\* variant: the comparison with 'true' is case sensitive
isReadOnlyCaseSensitive(e) ==
  trim(IF IsDefined(e) THEN e[1] ELSE <<>>) = <<"t", "r", "u", "e">>

\* String(process.env.MCP_READ_ONLY ?? '').trim().toLowerCase() === 'true'
isReadOnly(e) ==
  toLowerCase(trim(IF IsDefined(e) THEN e[1] ELSE <<>>)) = <<"t", "r", "u", "e">>

ReadTools ==
  {"list_applications", "get_application", "get_application_resource_tree",
   "get_application_managed_resources", "get_application_workload_logs",
   "get_application_events", "get_resource_events", "get_resource_actions"}

ModificationTools ==
  {"create_application", "update_application", "delete_application",
   "sync_application", "run_resource_action"}

\* the tools the constructor registers
registeredTools(e) ==
  ReadTools \cup (IF ~isReadOnly(e) THEN ModificationTools ELSE {})

----------------------------------------------------------------------------
(* Transport (HttpClient): the request each call hands to the network *)

get(path, queryParams) ==
  [method |-> "GET", path |-> path, query |-> queryParams, body |-> None,
   stream |-> FALSE]

post(path, queryParams, body) ==
  [method |-> "POST", path |-> path, query |-> queryParams, body |-> body,
   stream |-> FALSE]

put(path, queryParams, body) ==
  [method |-> "PUT", path |-> path, query |-> queryParams, body |-> body,
   stream |-> FALSE]

delete(path, queryParams) ==
  [method |-> "DELETE", path |-> path, query |-> queryParams, body |-> None,
   stream |-> FALSE]

getStream(path, queryParams) ==
  [method |-> "GET", path |-> path, query |-> queryParams, body |-> None,
   stream |-> TRUE]

----------------------------------------------------------------------------
(* ArgoCDClient: the part of each method before its await *)

\* params?.search ? { search: params.search } : undefined
listApplicationsRequest(params) ==
  get(<<"api", "v1", "applications">>,
      IF TruthyStr(params.search) THEN Some([search |-> params.search])
      ELSE None)

getApplication(applicationName, appNamespace) ==
  get(<<"api", "v1", "applications", applicationName>>,
      IF TruthyStr(appNamespace) THEN Some([appNamespace |-> appNamespace])
      ELSE None)

createApplication(application) ==
  post(<<"api", "v1", "applications">>, None, Some(application))

updateApplication(applicationName, application) ==
  put(<<"api", "v1", "applications", applicationName>>, None,
      Some(application))

deleteApplication(applicationName, options) ==
  LET opt(k) == IF IsDefined(options) THEN options[1][k] ELSE None
      queryParams ==
        [appNamespace |->
           IF TruthyStr(opt("appNamespace")) THEN opt("appNamespace")
           ELSE None,
         cascade |->
           IF IsDefined(opt("cascade")) THEN opt("cascade") ELSE None,
         propagationPolicy |->
           IF TruthyStr(opt("propagationPolicy"))
           THEN opt("propagationPolicy") ELSE None]
  IN delete(<<"api", "v1", "applications", applicationName>>,
            IF Keys(queryParams) # {} THEN Some(queryParams) ELSE None)

syncApplication(applicationName, options) ==
  LET opt(k) == IF IsDefined(options) THEN options[1][k] ELSE None
      syncRequest ==
        [appNamespace |->
           IF TruthyStr(opt("appNamespace")) THEN opt("appNamespace")
           ELSE None,
         dryRun |-> IF IsDefined(opt("dryRun")) THEN opt("dryRun") ELSE None,
         prune |-> IF IsDefined(opt("prune")) THEN opt("prune") ELSE None,
         revision |->
           IF TruthyStr(opt("revision")) THEN opt("revision") ELSE None,
         syncOptions |->
           IF IsDefined(opt("syncOptions")) THEN opt("syncOptions")
           ELSE None]
  IN post(<<"api", "v1", "applications", applicationName, "sync">>, None,
          IF Keys(syncRequest) # {} THEN Some(syncRequest) ELSE None)

getApplicationResourceTree(applicationName) ==
  get(<<"api", "v1", "applications", applicationName, "resource-tree">>, None)

getApplicationManagedResources(applicationName, filters) ==
  get(<<"api", "v1", "applications", applicationName, "managed-resources">>,
      filters)

getApplicationLogs(applicationName) ==
  getStream(<<"api", "v1", "applications", applicationName, "logs">>,
            Some([follow |-> Some(FALSE), tailLines |-> Some(100)]))

getWorkloadLogs(applicationName, applicationNamespace, resourceRef, container) ==
  getStream(<<"api", "v1", "applications", applicationName, "logs">>,
            Some([appNamespace |-> Some(applicationNamespace),
                  namespace |-> Some(resourceRef.namespace),
                  resourceName |-> Some(resourceRef.name),
                  group |-> Some(resourceRef.group),
                  kind |-> Some(resourceRef.kind),
                  version |-> Some(resourceRef.version),
                  follow |-> Some(FALSE),
                  tailLines |-> Some(100),
                  container |-> Some(container)]))

getPodLogs(applicationName, podName) ==
  getStream(<<"api", "v1", "applications", applicationName, "pods", podName,
              "logs">>,
            Some([follow |-> Some(FALSE), tailLines |-> Some(100)]))

getApplicationEvents(applicationName) ==
  get(<<"api", "v1", "applications", applicationName, "events">>, None)

getResourceEvents(applicationName, applicationNamespace, resourceUID, resourceNamespace, resourceName) ==
  get(<<"api", "v1", "applications", applicationName, "events">>,
      Some([appNamespace |-> Some(applicationNamespace),
            resourceNamespace |-> Some(resourceNamespace),
            resourceUID |-> Some(resourceUID),
            resourceName |-> Some(resourceName)]))

getResourceActions(applicationName, applicationNamespace, resourceRef) ==
  get(<<"api", "v1", "applications", applicationName, "resource", "actions">>,
      Some([appNamespace |-> Some(applicationNamespace),
            namespace |-> Some(resourceRef.namespace),
            resourceName |-> Some(resourceRef.name),
            group |-> Some(resourceRef.group),
            kind |-> Some(resourceRef.kind),
            version |-> Some(resourceRef.version)]))

runResourceAction(applicationName, applicationNamespace, resourceRef, action) ==
  post(<<"api", "v1", "applications", applicationName, "resource", "actions">>,
       Some([appNamespace |-> Some(applicationNamespace),
             namespace |-> Some(resourceRef.namespace),
             resourceName |-> Some(resourceRef.name),
             group |-> Some(resourceRef.group),
             kind |-> Some(resourceRef.kind),
             version |-> Some(resourceRef.version)]),
       Some(action))

----------------------------------------------------------------------------
(* ArgoCDClient: the part of each method after its await *)

\* the reduced projection of one application
stripApp(app) ==
  [metadata |-> [name |-> app.metadata.name,
                 namespace |-> app.metadata.namespace,
                 labels |-> app.metadata.labels,
                 creationTimestamp |-> app.metadata.creationTimestamp],
   spec |-> [project |-> app.spec.project,
             source |-> app.spec.source,
             destination |-> app.spec.destination],
   status |-> [sync |-> app.status.sync,
               health |-> app.status.health,
               summary |-> app.status.summary]]

\* body.items?.map(...) ?? []
strippedItems(body) ==
  IF IsDefined(body.items)
  THEN [i \in 1..Len(body.items[1]) |-> stripApp(body.items[1][i])]
  ELSE <<>>

\* variant: the end of the page is the limit itself, the offset is forgotten
listApplicationsEndIgnoresStart(params, body) ==
  LET stripped == strippedItems(body)
      start == IF IsDefined(params.offset) THEN params.offset[1] ELSE 0
      end == IF TruthyNum(params.limit) THEN params.limit[1]
             ELSE Len(stripped)
      items == Slice(stripped, start, end)
  IN [items |-> items,
      metadata |-> [resourceVersion |-> body.metadata.resourceVersion,
                    totalItems |-> Len(stripped),
                    returnedItems |-> Len(items),
                    hasMore |-> end < Len(stripped)]]

\* variant: hasMore compares the page size with the total
listApplicationsHasMoreBySize(params, body) ==
  LET stripped == strippedItems(body)
      start == IF IsDefined(params.offset) THEN params.offset[1] ELSE 0
      end == IF TruthyNum(params.limit) THEN start + params.limit[1]
             ELSE Len(stripped)
      items == Slice(stripped, start, end)
  IN [items |-> items,
      metadata |-> [resourceVersion |-> body.metadata.resourceVersion,
                    totalItems |-> Len(stripped),
                    returnedItems |-> Len(items),
                    hasMore |-> Len(items) < Len(stripped)]]

\* variant: hasMore is true also when the page ends exactly at the total
listApplicationsHasMoreInclusive(params, body) ==
  LET stripped == strippedItems(body)
      start == IF IsDefined(params.offset) THEN params.offset[1] ELSE 0
      end == IF TruthyNum(params.limit) THEN start + params.limit[1]
             ELSE Len(stripped)
      items == Slice(stripped, start, end)
  IN [items |-> items,
      metadata |-> [resourceVersion |-> body.metadata.resourceVersion,
                    totalItems |-> Len(stripped),
                    returnedItems |-> Len(items),
                    hasMore |-> end <= Len(stripped)]]

\* variant: the page runs one item past start + limit
listApplicationsOneTooMany(params, body) ==
  LET stripped == strippedItems(body)
      start == IF IsDefined(params.offset) THEN params.offset[1] ELSE 0
      end == IF TruthyNum(params.limit) THEN start + params.limit[1] + 1
             ELSE Len(stripped)
      items == Slice(stripped, start, end)
  IN [items |-> items,
      metadata |-> [resourceVersion |-> body.metadata.resourceVersion,
                    totalItems |-> Len(stripped),
                    returnedItems |-> Len(items),
                    hasMore |-> end < Len(stripped)]]

listApplications(params, body) ==
  LET stripped == strippedItems(body)
      start == IF IsDefined(params.offset) THEN params.offset[1] ELSE 0
      end == IF TruthyNum(params.limit) THEN start + params.limit[1]
             ELSE Len(stripped)
      items == Slice(stripped, start, end)
  IN [items |-> items,
      metadata |-> [resourceVersion |-> body.metadata.resourceVersion,
                    totalItems |-> Len(stripped),
                    returnedItems |-> Len(items),
                    hasMore |-> end < Len(stripped)]]

\* variant: the record is put in front of the collected ones
logsPushFront(logs, chunk) == <<chunk>> \o logs

\* (chunk) => logs.push(chunk)
logsPush(logs, chunk) == Append(logs, chunk)

----------------------------------------------------------------------------
(* Server: the tool callbacks, each up to the client's transport call *)

list_applications(args) ==
  listApplicationsRequest([search |-> args.search, limit |-> args.limit,
                           offset |-> args.offset])

get_application(args) ==
  getApplication(args.applicationName, args.applicationNamespace)

get_application_resource_tree(args) ==
  getApplicationResourceTree(args.applicationName)

FilterKeys ==
  {"kind", "namespace", "name", "version", "group", "appNamespace", "project"}

\* variant: a filter is kept whenever it is defined, empty or not
get_application_managed_resourcesKeepsEmpty(args) ==
  LET filters == [k \in FilterKeys |->
                    IF IsDefined(args[k]) THEN args[k] ELSE None]
  IN getApplicationManagedResources(
       args.applicationName,
       IF Keys(filters) # {} THEN Some(filters) ELSE None)

get_application_managed_resources(args) ==
  LET filters == [k \in FilterKeys |->
                    IF TruthyStr(args[k]) THEN args[k] ELSE None]
  IN getApplicationManagedResources(
       args.applicationName,
       IF Keys(filters) # {} THEN Some(filters) ELSE None)

get_application_workload_logs(args) ==
  getWorkloadLogs(args.applicationName, args.applicationNamespace,
                  args.resourceRef, args.container)

get_application_events(args) == getApplicationEvents(args.applicationName)

get_resource_events(args) ==
  getResourceEvents(args.applicationName, args.applicationNamespace,
                    args.resourceUID, args.resourceNamespace,
                    args.resourceName)

get_resource_actions(args) ==
  getResourceActions(args.applicationName, args.applicationNamespace,
                     args.resourceRef)

create_application(args) == createApplication(args.application)

update_application(args) ==
  updateApplication(args.applicationName, args.application)

delete_application(args) ==
  LET options ==
        [appNamespace |->
           IF TruthyStr(args.applicationNamespace)
           THEN args.applicationNamespace ELSE None,
         cascade |-> IF IsDefined(args.cascade) THEN args.cascade ELSE None,
         propagationPolicy |->
           IF TruthyStr(args.propagationPolicy) THEN args.propagationPolicy
           ELSE None]
  IN deleteApplication(args.applicationName,
                       IF Keys(options) # {} THEN Some(options) ELSE None)

sync_application(args) ==
  LET options ==
        [appNamespace |->
           IF TruthyStr(args.applicationNamespace)
           THEN args.applicationNamespace ELSE None,
         dryRun |-> IF IsDefined(args.dryRun) THEN args.dryRun ELSE None,
         prune |-> IF IsDefined(args.prune) THEN args.prune ELSE None,
         revision |-> IF TruthyStr(args.revision) THEN args.revision ELSE None,
         syncOptions |->
           IF IsDefined(args.syncOptions) THEN args.syncOptions ELSE None]
  IN syncApplication(args.applicationName,
                     IF Keys(options) # {} THEN Some(options) ELSE None)

run_resource_action(args) ==
  runResourceAction(args.applicationName, args.applicationNamespace,
                    args.resourceRef, args.action)

\* the request an operation sends: a tool's callback, or a client method
\* that no tool wraps, called directly
requestOf(op, args) ==
  CASE op = "list_applications" -> list_applications(args)
    [] op = "get_application" -> get_application(args)
    [] op = "get_application_resource_tree" ->
         get_application_resource_tree(args)
    [] op = "get_application_managed_resources" ->
         get_application_managed_resources(args)
    [] op = "get_application_workload_logs" ->
         get_application_workload_logs(args)
    [] op = "get_application_events" -> get_application_events(args)
    [] op = "get_resource_events" -> get_resource_events(args)
    [] op = "get_resource_actions" -> get_resource_actions(args)
    [] op = "create_application" -> create_application(args)
    [] op = "update_application" -> update_application(args)
    [] op = "delete_application" -> delete_application(args)
    [] op = "sync_application" -> sync_application(args)
    [] op = "run_resource_action" -> run_resource_action(args)
    [] op = "getApplicationLogs" -> getApplicationLogs(args.applicationName)
    [] op = "getPodLogs" -> getPodLogs(args.applicationName, args.podName)

\* what the client method returns once the transport call has resolved
returnOf(op, args, body) ==
  IF op = "list_applications"
  THEN listApplications([search |-> args.search, limit |-> args.limit,
                         offset |-> args.offset], body)
  ELSE body

----------------------------------------------------------------------------
(* Server.addJsonOutputTool: the envelope around a callback's outcome *)

\* JSON.stringify(result): an injective encoding of the result as text
JSONstringify(result) == [json |-> result]

\* error instanceof Error ? error.message : String(error)
errorText(error) ==
  IF error.instanceofError THEN error.message ELSE error.string

\* variant: no catch, a thrown error leaves the wrapper without an envelope
addJsonOutputToolNoCatch(outcome) ==
  IF ~outcome.threw
  THEN Some([isError |-> FALSE,
             content |-> <<[type |-> "text",
                            text |-> JSONstringify(outcome.value)]>>])
  ELSE None

addJsonOutputTool(outcome) ==
  IF ~outcome.threw
  THEN Some([isError |-> FALSE,
             content |-> <<[type |-> "text",
                            text |-> JSONstringify(outcome.value)]>>])
  ELSE Some([isError |-> TRUE,
             content |-> <<[type |-> "text",
                            text |-> errorText(outcome.error)]>>])

----------------------------------------------------------------------------
(* Inputs: tool arguments accepted by the schemas, remote responses *)

AppNames == {"guestbook"}
Namespaces == {"argocd"}
OptionalStrings == {"", "x"}

ResourceRef ==
  [uid |-> "uid-1", kind |-> "Deployment", namespace |-> "default",
   name |-> "web", version |-> "v1", group |-> "apps"]

ApplicationPayload ==
  [metadata |-> [name |-> "guestbook", namespace |-> "argocd"],
   spec |-> [project |-> "default"]]

SyncOptionLists ==
  {<<>>, <<"CreateNamespace=true", "PrunePropagationPolicy=foreground">>}

ClientOnlyOps == {"getApplicationLogs", "getPodLogs"}

argsOf(op) ==
  CASE op = "list_applications" ->
         {[search |-> s, limit |-> l, offset |-> o] :
            s \in Opt(OptionalStrings), l \in Opt(1..MaxLimit),
            o \in Opt(0..MaxOffset)}
    [] op = "get_application" ->
         {[applicationName |-> n, applicationNamespace |-> ns] :
            n \in AppNames, ns \in Opt(Namespaces)}
    [] op = "get_application_managed_resources" ->
         {[applicationName |-> n, kind |-> f1, namespace |-> f2, name |-> f3,
           version |-> f4, group |-> f5, appNamespace |-> f6,
           project |-> f7] :
            n \in AppNames,
            f1 \in Opt(OptionalStrings), f2 \in Opt(OptionalStrings),
            f3 \in Opt(OptionalStrings), f4 \in Opt(OptionalStrings),
            f5 \in Opt(OptionalStrings), f6 \in Opt(OptionalStrings),
            f7 \in Opt(OptionalStrings)}
    [] op = "get_application_workload_logs" ->
         {[applicationName |-> n, applicationNamespace |-> ns,
           resourceRef |-> ResourceRef, container |-> "main"] :
            n \in AppNames, ns \in Namespaces}
    [] op = "get_resource_events" ->
         {[applicationName |-> n, applicationNamespace |-> ns,
           resourceUID |-> "uid-1", resourceNamespace |-> "default",
           resourceName |-> "web"] :
            n \in AppNames, ns \in Namespaces}
    [] op = "get_resource_actions" ->
         {[applicationName |-> n, applicationNamespace |-> ns,
           resourceRef |-> ResourceRef] :
            n \in AppNames, ns \in Namespaces}
    [] op = "create_application" -> {[application |-> ApplicationPayload]}
    [] op = "update_application" ->
         {[applicationName |-> n, application |-> ApplicationPayload] :
            n \in AppNames}
    [] op = "delete_application" ->
         {[applicationName |-> n, applicationNamespace |-> ns,
           cascade |-> ca, propagationPolicy |-> pp] :
            n \in AppNames, ns \in Opt(Namespaces), ca \in Opt(BOOLEAN),
            pp \in Opt(OptionalStrings)}
    [] op = "sync_application" ->
         {[applicationName |-> n, applicationNamespace |-> ns,
           dryRun |-> dr, prune |-> pr, revision |-> rev,
           syncOptions |-> so] :
            n \in AppNames, ns \in Opt(Namespaces), dr \in Opt(BOOLEAN),
            pr \in Opt(BOOLEAN), rev \in Opt(OptionalStrings),
            so \in Opt(SyncOptionLists)}
    [] op = "run_resource_action" ->
         {[applicationName |-> n, applicationNamespace |-> ns,
           resourceRef |-> ResourceRef, action |-> "restart"] :
            n \in AppNames, ns \in Namespaces}
    [] op = "getPodLogs" ->
         {[applicationName |-> n, podName |-> "web-0"] : n \in AppNames}
    [] OTHER -> {[applicationName |-> n] : n \in AppNames}

\* one remote application, with fields the projection drops
remoteApp(i) ==
  [metadata |-> [name |-> i, namespace |-> "argocd", labels |-> "team=a",
                 creationTimestamp |-> 1000 + i, managedFields |-> "heavy"],
   spec |-> [project |-> "default", source |-> "repo",
             destination |-> "in-cluster", syncPolicy |-> "automated"],
   status |-> [sync |-> "Synced", health |-> "Healthy", summary |-> "images",
               history |-> "heavy", resources |-> "heavy"],
   operation |-> "heavy"]

ListBodies ==
  {[items |-> None, metadata |-> [resourceVersion |-> "rv"]]} \cup
  {[items |-> Some([i \in 1..n |-> remoteApp(i)]),
    metadata |-> [resourceVersion |-> "rv"]] : n \in 0..MaxApps}

bodiesOf(op) ==
  IF op = "list_applications" THEN ListBodies
  ELSE {[payload |-> "a"], [payload |-> "b"]}

LogRecords == {[content |-> "line1"], [content |-> "line2"]}

\* values a failed transport call rejects with
Errors ==
  {[name |-> "NetworkError", instanceofError |-> TRUE, status |-> 0,
    message |-> "connect ECONNREFUSED", string |-> "Error: connect ECONNREFUSED"],
   [name |-> "HttpStatusError", instanceofError |-> TRUE, status |-> 404,
    message |-> "application not found", string |-> "Error: application not found"],
   [name |-> "DecodeError", instanceofError |-> TRUE, status |-> 200,
    message |-> "Unexpected token", string |-> "SyntaxError: Unexpected token"],
   [name |-> "thrown string", instanceofError |-> FALSE, status |-> 0,
    message |-> "", string |-> "stream aborted"]}

----------------------------------------------------------------------------
(* Values of MCP_READ_ONLY *)

Spaces(n) == [i \in 1..n |-> " "]

EnvWords ==
  {<<"t", "r", "u", "e">>, <<"T", "R", "U", "E">>, <<"T", "r", "u", "e">>,
   <<"\t", "t", "r", "u", "e">>, <<"t", " ", "r", "u", "e">>,
   <<"f", "a", "l", "s", "e">>, <<"1">>, <<>>}

EnvValues ==
  {None} \cup
  {Some(Spaces(l) \o w \o Spaces(r)) : w \in EnvWords, l \in 0..MaxPad,
                                       r \in 0..MaxPad}

----------------------------------------------------------------------------
(* State machine *)

Idle == [pc |-> "idle"]

\* a callback starts: it runs up to the transport call of the client method
started(via, op, args) ==
  LET req == requestOf(op, args)
  IN [pc |-> IF req.stream THEN "streaming" ELSE "awaiting",
      via |-> via, op |-> op, args |-> args, reqs |-> <<req>>,
      logs |-> <<>>, delivered |-> <<>>, response |-> None,
      outcome |-> None, envelope |-> None]

\* the client method returns or throws; a tool's wrapper builds the envelope
settled(call, response, outcome) ==
  [call EXCEPT !.pc = "done",
               !.response = Some(response),
               !.outcome = Some(outcome),
               !.envelope = IF call.via = "tool"
                            THEN addJsonOutputTool(outcome) ELSE None]

\* the dispatcher invokes a registered tool with validated arguments
InvokeTool(c) ==
  /\ calls[c].pc = "idle"
  /\ \E op \in tools : \E args \in argsOf(op) :
       calls' = [calls EXCEPT ![c] = started("tool", op, args)]
  /\ UNCHANGED <<env, tools>>

\* a client method that no tool wraps is called directly
InvokeClient(c) ==
  /\ calls[c].pc = "idle"
  /\ \E op \in ClientOnlyOps : \E args \in argsOf(op) :
       calls' = [calls EXCEPT ![c] = started("client", op, args)]
  /\ UNCHANGED <<env, tools>>

\* a buffered transport call resolves with a decoded body
Resolve(c) ==
  /\ calls[c].pc = "awaiting"
  /\ \E body \in bodiesOf(calls[c].op) :
       calls' = [calls EXCEPT ![c] =
         settled(@, [ok |-> TRUE, body |-> body],
                 [threw |-> FALSE,
                  value |-> returnOf(@.op, @.args, body)])]
  /\ UNCHANGED <<env, tools>>

\* variant: a failed call is sent once more before the error is passed on
RejectRetries(c) ==
  /\ calls[c].pc = "awaiting"
  /\ \E error \in Errors :
       calls' = [calls EXCEPT ![c] =
         IF Len(@.reqs) < 2
         THEN [@ EXCEPT !.reqs = Append(@, @[1])]
         ELSE settled(@, [ok |-> FALSE, error |-> error],
                      [threw |-> TRUE, error |-> error])]
  /\ UNCHANGED <<env, tools>>

\* a buffered transport call rejects
Reject(c) ==
  /\ calls[c].pc = "awaiting"
  /\ \E error \in Errors :
       calls' = [calls EXCEPT ![c] =
         settled(@, [ok |-> FALSE, error |-> error],
                 [threw |-> TRUE, error |-> error])]
  /\ UNCHANGED <<env, tools>>

\* variant: the collected records live in one buffer shared by the client's
\* running log calls
OnRecordSharedBuffer(c) ==
  /\ calls[c].pc = "streaming"
  /\ Len(calls[c].delivered) < MaxLogs
  /\ \E chunk \in LogRecords :
       calls' = [d \in DOMAIN calls |->
                   IF d = c
                   THEN [calls[d] EXCEPT !.logs = logsPush(@, chunk),
                                         !.delivered = Append(@, chunk)]
                   ELSE IF calls[d].pc = "streaming"
                        THEN [calls[d] EXCEPT !.logs = logsPush(@, chunk)]
                        ELSE calls[d]]
  /\ UNCHANGED <<env, tools>>

\* the stream delivers one record to the callback
OnRecord(c) ==
  /\ calls[c].pc = "streaming"
  /\ Len(calls[c].delivered) < MaxLogs
  /\ \E chunk \in LogRecords :
       calls' = [calls EXCEPT ![c].logs = logsPush(@, chunk),
                              ![c].delivered = Append(@, chunk)]
  /\ UNCHANGED <<env, tools>>

\* the stream ends: getStream resolves and the method returns logs
StreamEnd(c) ==
  /\ calls[c].pc = "streaming"
  /\ calls' = [calls EXCEPT ![c] =
       settled(@, [ok |-> TRUE, records |-> @.delivered],
               [threw |-> FALSE, value |-> @.logs])]
  /\ UNCHANGED <<env, tools>>

\* variant: the method catches the stream error and returns what it has
StreamFailReturnsPartial(c) ==
  /\ calls[c].pc = "streaming"
  /\ \E error \in Errors :
       calls' = [calls EXCEPT ![c] =
         settled(@, [ok |-> FALSE, error |-> error],
                 [threw |-> FALSE, value |-> @.logs])]
  /\ UNCHANGED <<env, tools>>

\* the stream fails: getStream rejects and the method throws
StreamFail(c) ==
  /\ calls[c].pc = "streaming"
  /\ \E error \in Errors :
       calls' = [calls EXCEPT ![c] =
         settled(@, [ok |-> FALSE, error |-> error],
                 [threw |-> TRUE, error |-> error])]
  /\ UNCHANGED <<env, tools>>

\* the caller has taken the outcome; the slot is free for the next call
Retire(c) ==
  /\ calls[c].pc = "done"
  /\ calls' = [calls EXCEPT ![c] = Idle]
  /\ UNCHANGED <<env, tools>>

ToolNames == ReadTools \cup ModificationTools

OneSlot == {1}

\* the server after construction, one invocation at a time
Init ==
  /\ env \in EnvValues
  /\ tools = registeredTools(env)
  /\ calls = [c \in OneSlot |-> Idle]

Next ==
  \E c \in OneSlot :
    \/ InvokeTool(c)
    \/ InvokeClient(c)
    \/ Resolve(c)
    \/ Reject(c)
    \/ OnRecord(c)
    \/ StreamEnd(c)
    \/ StreamFail(c)
    \/ Retire(c)

Spec == Init /\ [][Next]_vars

\* calls that overlap on one client: a few operations, a few arguments each
Slots == 1..MaxCalls

ConcurrentCalls ==
  {[via |-> "tool", op |-> "list_applications",
    args |-> [search |-> None, limit |-> l, offset |-> l]] :
      l \in {Some(1)}}
  \cup
  {[via |-> "tool", op |-> op, args |-> args] :
     op \in {"get_application"},
     args \in {a \in argsOf("get_application") :
                 a.applicationNamespace = None}}
  \cup
  {[via |-> "tool", op |-> op, args |-> args] :
     op \in {"get_application_workload_logs"},
     args \in argsOf("get_application_workload_logs")}

\* a call starts while others may be in flight
InvokeConcurrent(c) ==
  /\ calls[c].pc = "idle"
  /\ \E call \in ConcurrentCalls :
       /\ call.via = "tool" => call.op \in tools
       /\ calls' = [calls EXCEPT ![c] = started(call.via, call.op, call.args)]
  /\ UNCHANGED <<env, tools>>

InitConcurrent ==
  /\ env = None
  /\ tools = registeredTools(env)
  /\ calls = [c \in Slots |-> Idle]

NextConcurrent ==
  \E c \in Slots :
    \/ InvokeConcurrent(c)
    \/ Resolve(c)
    \/ Reject(c)
    \/ OnRecord(c)
    \/ StreamEnd(c)
    \/ StreamFail(c)

SpecConcurrent == InitConcurrent /\ [][NextConcurrent]_vars

----------------------------------------------------------------------------
(* Properties of listApplications *)

\* a list_applications call whose client method has returned
ListReturned(c) ==
  /\ calls[c].pc = "done"
  /\ calls[c].op = "list_applications"
  /\ ~calls[c].outcome[1].threw

\* the number of applications the remote API returned to call c
RemoteCount(c) ==
  LET body == calls[c].response[1].body
  IN IF IsDefined(body.items) THEN Len(body.items[1]) ELSE 0

OffsetOf(c) ==
  IF IsDefined(calls[c].args.offset) THEN calls[c].args.offset[1] ELSE 0

LimitSupplied(c) == IsDefined(calls[c].args.limit)

ListMetadata(c) == calls[c].outcome[1].value.metadata

\* C1 as stated: returnedItems is min(limit, totalItems - offset) with a
\* limit and totalItems - offset without one, for every offset >= 0.
C1_ReturnedItemsAsStated ==
  \A c \in DOMAIN calls :
    ListReturned(c) =>
      ListMetadata(c).returnedItems =
        IF LimitSupplied(c)
        THEN Min(calls[c].args.limit[1], RemoteCount(c) - OffsetOf(c))
        ELSE RemoteCount(c) - OffsetOf(c)

\* C1 amended: returnedItems is max(0, min(limit, totalItems - offset)) with a
\* limit and max(0, totalItems - offset) without one: an offset beyond the
\* end of the list gives an empty page, never a negative count.
C1_ReturnedItems ==
  \A c \in DOMAIN calls :
    ListReturned(c) =>
      ListMetadata(c).returnedItems =
        Max(0, IF LimitSupplied(c)
               THEN Min(calls[c].args.limit[1], RemoteCount(c) - OffsetOf(c))
               ELSE RemoteCount(c) - OffsetOf(c))

\* a page cut by the limit from the middle of the list
C1_Witness ==
  \E c \in DOMAIN calls :
    /\ ListReturned(c)
    /\ LimitSupplied(c)
    /\ OffsetOf(c) >= 1
    /\ RemoteCount(c) - OffsetOf(c) > calls[c].args.limit[1]
    /\ ListMetadata(c).returnedItems = calls[c].args.limit[1]

\* C2: returnedItems is the length of items; hasMore is
\* (offset + returnedItems) < totalItems with a limit and false without one.
C2_PageMetadata ==
  \A c \in DOMAIN calls :
    ListReturned(c) =>
      /\ ListMetadata(c).returnedItems = Len(calls[c].outcome[1].value.items)
      /\ ListMetadata(c).hasMore =
           IF LimitSupplied(c)
           THEN OffsetOf(c) + ListMetadata(c).returnedItems
                  < ListMetadata(c).totalItems
           ELSE FALSE

\* a first page with more to come
C2_Witness ==
  \E c \in DOMAIN calls :
    /\ ListReturned(c)
    /\ LimitSupplied(c)
    /\ ListMetadata(c).hasMore
    /\ ListMetadata(c).returnedItems >= 1
    /\ ListMetadata(c).totalItems = MaxApps

----------------------------------------------------------------------------
(* Properties of the requests built from option bags *)

\* slot c holds a call of operation op (its request has been issued)
Issued(c, op) == calls[c].pc # "idle" /\ calls[c].op = op

RequestOf(c) == calls[c].reqs[1]

\* the keys of the request's query parameters
QueryKeys(req) == IF IsDefined(req.query) THEN Keys(req.query[1]) ELSE {}

\* the value sent for key k in an optional object: undefined when the object
\* or the key is absent
Sent(object, k) == IF IsDefined(object) THEN object[1][k] ELSE None

\* C3: the sync request body holds exactly the supplied options among
\* appNamespace, dryRun, prune, revision and syncOptions, each with its
\* supplied value; an option that was not supplied is not a key of the body.
C3_SyncBodyExactlySupplied ==
  \A c \in DOMAIN calls :
    Issued(c, "sync_application") =>
      LET body == RequestOf(c).body
          args == calls[c].args
      IN /\ Sent(body, "appNamespace") = args.applicationNamespace
         /\ Sent(body, "dryRun") = args.dryRun
         /\ Sent(body, "prune") = args.prune
         /\ Sent(body, "revision") = args.revision
         /\ Sent(body, "syncOptions") = args.syncOptions

\* C4: each of appNamespace, cascade and propagationPolicy is a query
\* parameter of the delete request iff the caller specified it (empty and
\* false values included), with the supplied value.
C4_DeleteQueryIffSpecified ==
  \A c \in DOMAIN calls :
    Issued(c, "delete_application") =>
      LET query == RequestOf(c).query
          args == calls[c].args
      IN /\ Sent(query, "appNamespace") = args.applicationNamespace
         /\ Sent(query, "cascade") = args.cascade
         /\ Sent(query, "propagationPolicy") = args.propagationPolicy

\* C5: a managed-resources filter is forwarded as a query parameter only if
\* it was given a non-empty value, and then with that value.
C5_OnlyNonEmptyFilters ==
  \A c \in DOMAIN calls :
    Issued(c, "get_application_managed_resources") =>
      /\ QueryKeys(RequestOf(c)) \subseteq FilterKeys
      /\ \A k \in QueryKeys(RequestOf(c)) :
           /\ IsDefined(calls[c].args[k])
           /\ calls[c].args[k][1] # ""
           /\ RequestOf(c).query[1][k] = calls[c].args[k]

\* one filter given a value, one given the empty string, the rest absent
C5_Witness ==
  \E c \in DOMAIN calls :
    /\ Issued(c, "get_application_managed_resources")
    /\ calls[c].args.kind = Some("x")
    /\ calls[c].args.namespace = Some("")
    /\ calls[c].args.project = None
    /\ QueryKeys(RequestOf(c)) = {"kind"}

----------------------------------------------------------------------------
(* Properties of the log operations and of failures *)

Done(c) == calls[c].pc = "done"
Outcome(c) == calls[c].outcome[1]
Response(c) == calls[c].response[1]

\* getApplicationLogs, and getWorkloadLogs through its tool
LogOps == {"getApplicationLogs", "get_application_workload_logs"}

\* C6: a log operation opens one stream with follow=false and tailLines=100,
\* has not returned while the stream is open, and returns exactly the records
\* delivered to its callback, in delivery order.
C6_LogsCollectStream ==
  \A c \in DOMAIN calls :
    (calls[c].pc # "idle" /\ calls[c].op \in LogOps) =>
      /\ Len(calls[c].reqs) = 1
      /\ RequestOf(c).stream
      /\ RequestOf(c).method = "GET"
      /\ RequestOf(c).query[1].follow = Some(FALSE)
      /\ RequestOf(c).query[1].tailLines = Some(100)
      /\ calls[c].pc = "streaming" => calls[c].outcome = None
      /\ (Done(c) /\ ~Outcome(c).threw) =>
           /\ Response(c).ok
           /\ Outcome(c).value = Response(c).records
           /\ Outcome(c).value = calls[c].delivered

\* a log operation has returned two different records in delivery order
C6_Witness ==
  \E c \in DOMAIN calls :
    /\ Done(c)
    /\ calls[c].op = "getApplicationLogs"
    /\ ~Outcome(c).threw
    /\ calls[c].delivered = <<[content |-> "line2"], [content |-> "line1"]>>
    /\ Outcome(c).value = calls[c].delivered

\* C7: an operation whose transport call failed throws that same error and
\* yields no result; a log operation whose stream failed after records were
\* delivered does not return them.
C7_TransportFailurePropagates ==
  \A c \in DOMAIN calls :
    (Done(c) /\ ~Response(c).ok) =>
      /\ Outcome(c).threw
      /\ "value" \notin DOMAIN Outcome(c)
      /\ Outcome(c).error = Response(c).error

\* a log stream failed after it had delivered a record
C7_Witness ==
  \E c \in DOMAIN calls :
    /\ Done(c)
    /\ calls[c].op \in LogOps
    /\ ~Response(c).ok
    /\ Len(calls[c].delivered) >= 1
    /\ Outcome(c).threw

----------------------------------------------------------------------------
(* Read-only mode *)

\* values of MCP_READ_ONLY that are 'true' once trimmed and lower-cased
ReadOnlyEnv ==
  {Some(Spaces(l) \o w \o Spaces(r)) :
     w \in {<<"t", "r", "u", "e">>, <<"T", "R", "U", "E">>,
            <<"T", "r", "u", "e">>, <<"\t", "t", "r", "u", "e">>},
     l \in 0..MaxPad, r \in 0..MaxPad}

\* C8: in read-only mode no modification tool is registered and every
\* request issued is a GET; the read tools are registered in both modes.
C8_ReadOnlyNoMutation ==
  /\ ReadTools \subseteq tools
  /\ env \in ReadOnlyEnv =>
       /\ tools \cap ModificationTools = {}
       /\ \A c \in DOMAIN calls :
            calls[c].pc # "idle" =>
              \A i \in 1..Len(calls[c].reqs) : calls[c].reqs[i].method = "GET"

\* read-only mode set by a padded upper-case value, and a tool has run
C8_Witness ==
  /\ env = Some(Spaces(MaxPad) \o <<"T", "R", "U", "E">> \o Spaces(MaxPad))
  /\ \E c \in DOMAIN calls : Done(c) /\ calls[c].via = "tool"

----------------------------------------------------------------------------
(* Concurrent calls *)

\* what call c returns when it runs alone against the responses it received
ExpectedAlone(c) ==
  IF ~Response(c).ok
  THEN Outcome(c).threw /\ Outcome(c).error = Response(c).error
  ELSE /\ ~Outcome(c).threw
       /\ IF RequestOf(c).stream
          THEN Outcome(c).value = Response(c).records
          ELSE IF calls[c].op = "list_applications"
          THEN /\ ListMetadata(c).totalItems = RemoteCount(c)
               /\ ListMetadata(c).returnedItems =
                    Len(Outcome(c).value.items)
               /\ \A i \in 1..Len(Outcome(c).value.items) :
                    Outcome(c).value.items[i] =
                      stripApp(Response(c).body.items[1][OffsetOf(c) + i])
          ELSE Outcome(c).value = Response(c).body

\* C9: under every interleaving of the calls on one client, each call's
\* result is the one it would have alone with the same remote responses.
C9_NoInterference ==
  \A c \in DOMAIN calls : Done(c) => ExpectedAlone(c)

\* a log call has returned its records while another log call, opened
\* before, is still receiving different ones
C9_Witness ==
  \E c, d \in DOMAIN calls :
    /\ c # d
    /\ Done(c)
    /\ calls[c].op \in LogOps
    /\ ~Outcome(c).threw
    /\ Outcome(c).value = <<[content |-> "line1"], [content |-> "line1"]>>
    /\ calls[d].pc = "streaming"
    /\ calls[d].delivered = <<[content |-> "line2"]>>

----------------------------------------------------------------------------
(* The envelope *)

\* C10: a tool invocation whose operation has settled has one envelope:
\* isError=false with the serialised result when the operation returned,
\* isError=true with the error's message (its string form when it is not an
\* Error) when it threw; the error never passes to the dispatcher.
C10_UniformEnvelope ==
  \A c \in DOMAIN calls :
    (Done(c) /\ calls[c].via = "tool") =>
      /\ IsDefined(calls[c].envelope)
      /\ Len(calls[c].envelope) = 1
      /\ Len(calls[c].envelope[1].content) = 1
      /\ calls[c].envelope[1].content[1].type = "text"
      /\ calls[c].envelope[1].isError = Outcome(c).threw
      /\ ~Outcome(c).threw =>
           calls[c].envelope[1].content[1].text = [json |-> Outcome(c).value]
      /\ Outcome(c).threw =>
           calls[c].envelope[1].content[1].text =
             IF Outcome(c).error.instanceofError
             THEN Outcome(c).error.message
             ELSE Outcome(c).error.string

\* a tool failed with a thrown value that is not an Error
C10_Witness ==
  \E c \in DOMAIN calls :
    /\ Done(c)
    /\ calls[c].via = "tool"
    /\ Outcome(c).threw
    /\ ~Outcome(c).error.instanceofError
    /\ calls[c].envelope[1].isError
    /\ calls[c].envelope[1].content[1].text = "stream aborted"

----------------------------------------------------------------------------
(* The empty list *)

\* C11: when the remote API returns no application (items empty or absent),
\* listApplications returns items = [] with totalItems = 0,
\* returnedItems = 0 and hasMore = false, for every offset and limit.
C11_EmptyList ==
  \A c \in DOMAIN calls :
    (ListReturned(c) /\ RemoteCount(c) = 0) =>
      /\ Len(Outcome(c).value.items) = 0
      /\ ListMetadata(c).totalItems = 0
      /\ ListMetadata(c).returnedItems = 0
      /\ ListMetadata(c).hasMore = FALSE

\* the remote body has no items key, and the call gave an offset and a limit
C11_Witness ==
  \E c \in DOMAIN calls :
    /\ ListReturned(c)
    /\ ~IsDefined(Response(c).body.items)
    /\ OffsetOf(c) >= 1
    /\ LimitSupplied(c)
    /\ ListMetadata(c).totalItems = 0

----------------------------------------------------------------------------
(* One round trip per operation *)

\* C12: an operation issues exactly one transport call, whether that call is
\* still pending, has succeeded or has failed (no retry, no follow-up), and
\* its outcome is decided by that call's response alone.
C12_SingleRoundTrip ==
  \A c \in DOMAIN calls :
    calls[c].pc # "idle" =>
      /\ Len(calls[c].reqs) = 1
      /\ calls[c].reqs[1] = requestOf(calls[c].op, calls[c].args)
      /\ Done(c) =>
           /\ Outcome(c).threw = ~Response(c).ok
           /\ ExpectedAlone(c)

\* a modifying operation failed and has sent its single request
C12_Witness ==
  \E c \in DOMAIN calls :
    /\ Done(c)
    /\ calls[c].op = "sync_application"
    /\ ~Response(c).ok
    /\ Outcome(c).threw
    /\ Len(calls[c].reqs) = 1
    /\ calls[c].reqs[1].method = "POST"

----------------------------------------------------------------------------
(* Paging through an unchanged list *)

\* slot k holds the k-th page; a list of MaxApps items has at most MaxApps pages
PageSlots == 1..MaxApps

PageReturned(k) ==
  /\ calls[k].pc = "done"
  /\ ~calls[k].outcome[1].threw

\* the caller asks for page k: the first page at offset 0 with some limit,
\* a later page only after the page before reported hasMore, with the same
\* search and limit and the offset advanced by the limit
PageInvoke(k) ==
  /\ calls[k].pc = "idle"
  /\ "list_applications" \in tools
  /\ IF k = 1
     THEN \E args \in argsOf("list_applications") :
            /\ IsDefined(args.limit)
            /\ args.offset = Some(0)
            /\ calls' = [calls EXCEPT ![k] =
                 started("tool", "list_applications", args)]
     ELSE /\ PageReturned(k - 1)
          /\ calls[k - 1].outcome[1].value.metadata.hasMore
          /\ calls' = [calls EXCEPT ![k] =
               started("tool", "list_applications",
                       [calls[k - 1].args EXCEPT
                          !.offset = Some(@[1] + calls[k - 1].args.limit[1])])]
  /\ UNCHANGED <<env, tools>>

\* the remote API answers page k with the list it answered page 1 with
PageResolve(k) ==
  /\ Resolve(k)
  /\ k > 1 => calls'[k].response = calls[1].response

InitPaging ==
  /\ env \in EnvValues
  /\ tools = registeredTools(env)
  /\ calls = [k \in PageSlots |-> Idle]

NextPaging ==
  \E k \in PageSlots :
    \/ PageInvoke(k)
    \/ PageResolve(k)

SpecPaging == InitPaging /\ [][NextPaging]_vars

\* the names of the applications on page k, in page order
PageNames(k) ==
  [i \in 1..Len(calls[k].outcome[1].value.items) |->
     calls[k].outcome[1].value.items[i].metadata.name]

\* the names on pages 1..k, page after page
RECURSIVE NamesUpTo(_)
NamesUpTo(k) == IF k = 0 THEN <<>> ELSE NamesUpTo(k - 1) \o PageNames(k)

\* the names of the remote list, in remote order
RemoteNames(k) ==
  [i \in 1..RemoteCount(k) |-> calls[k].response[1].body.items[1][i].metadata.name]

\* C13: with a fixed limit L at offsets 0, L, 2L, ... over an unchanged list
\* of N applications, pages 1..k together hold the first min(k*L, N)
\* applications, each once and in remote order, and page k reports hasMore
\* exactly when k*L < N: the page with hasMore = false completes the list.
C13_PagesCoverList ==
  \A k \in DOMAIN calls :
    (calls[k].pc = "done" /\ ~calls[k].outcome[1].threw) =>
      LET limit == calls[k].args.limit[1]
          total == RemoteCount(k)
      IN /\ calls[k].args.offset = Some((k - 1) * limit)
         /\ NamesUpTo(k) = SubSeq(RemoteNames(k), 1, Min(k * limit, total))
         /\ \A i, j \in 1..Len(NamesUpTo(k)) :
              i # j => NamesUpTo(k)[i] # NamesUpTo(k)[j]
         /\ ListMetadata(k).hasMore = (k * limit < total)
         /\ ~ListMetadata(k).hasMore => NamesUpTo(k) = RemoteNames(k)
         /\ \A j \in 1..(k - 1) : ListMetadata(j).hasMore

\* a short last page after a full first page of the longest list
C13_Witness ==
  \E k \in DOMAIN calls :
    /\ k >= 2
    /\ calls[k].pc = "done"
    /\ ~ListMetadata(k).hasMore
    /\ RemoteCount(k) = MaxApps
    /\ Len(PageNames(k)) >= 1
    /\ Len(PageNames(k)) < calls[k].args.limit[1]
    /\ Len(NamesUpTo(k)) = MaxApps

====
